---- MODULE Spec2Model ----
(***************************************************************************)
(* Model of the recommendation core of src/app.py:                         *)
(*   criar_matriz_interacao  (pandas pivot_table, default aggfunc = mean)  *)
(*   calcular_similaridades  (sklearn cosine_similarity)                   *)
(*   obter_recomendacoes     (top-k neighbours, max-score aggregation)     *)
(*                                                                         *)
(* Numbers.  Matrix cells are means of integers, so they are rationals:    *)
(* a rational is a reduced pair <<num, den>> with den > 0.  A cosine is    *)
(* dot / (|vi| * |vj|); the square root is not rational, so the model      *)
(* stores the SQUARE of every cosine.  All cells are >= 0, hence every     *)
(* cosine is in [0, 1], where squaring preserves order, equality, 0 and 1. *)
(* <<0, 0>> is not-a-number (the result of 0 / 0).  Floating-point         *)
(* rounding is not modelled.                                               *)
(***************************************************************************)
EXTENDS Integers, Sequences, FiniteSets, TLC

\* ------------------------------------------------------------------ bounds
NumCustomers == 3
NumProducts == 3
MaxQty == 1
MaxK == 3
MaxTx == 4
MaxRows == 2

CustomerKeys == 1..NumCustomers
ProductKeys == 1..NumProducts
Quantities == 0..MaxQty
Records == [CustomerKey : CustomerKeys, ProductKey : ProductKeys, TotalQtd : Quantities]

VARIABLES pc, erro, df_vendas, matriz, df_similaridade,
          cliente_id, n_vizinhos, produtos_comprados, similares,
          recomendacoes, idx, recomendacoes_ordenadas

vars == <<pc, erro, df_vendas, matriz, df_similaridade,
          cliente_id, n_vizinhos, produtos_comprados, similares,
          recomendacoes, idx, recomendacoes_ordenadas>>

\* --------------------------------------------------------------- rationals
RECURSIVE GCD(_, _)
GCD(a, b) == IF b = 0 THEN a ELSE GCD(b, a % b)

Rat(n, d) == IF n = 0 THEN <<0, 1>> ELSE <<n \div GCD(n, d), d \div GCD(n, d)>>

Zero == <<0, 1>>
One == <<1, 1>>
NaN == <<0, 0>>

RAdd(a, b) == Rat(a[1] * b[2] + b[1] * a[2], a[2] * b[2])
RMul(a, b) == Rat(a[1] * b[1], a[2] * b[2])
RDiv(a, b) == IF b[1] = 0 THEN NaN ELSE Rat(a[1] * b[2], a[2] * b[1])
RLeq(a, b) == a[1] * b[2] <= b[1] * a[2]
RPos(a) == a[1] > 0

Min(S) == CHOOSE x \in S : \A y \in S : x <= y

\* ------------------------------------------- criar_matriz_interacao (81-89)
RECURSIVE SumQtd(_, _)
SumQtd(df, rows) ==
    IF rows = {} THEN 0
    ELSE LET r == Min(rows) IN df[r].TotalQtd + SumQtd(df, rows \ {r})

\* pivot_table is called without aggfunc: pandas' default is the mean.
aggfunc(df, rows) == Rat(SumQtd(df, rows), Cardinality(rows))

\* index = the customers present, columns = the products present, a cell
\* with records = aggfunc of their TotalQtd, a cell without = fill_value 0.
pivot_table(df) ==
    LET index == {df[r].CustomerKey : r \in DOMAIN df}
        columns == {df[r].ProductKey : r \in DOMAIN df}
    IN  [index |-> index,
         columns |-> columns,
         cell |-> [x \in index \X columns |->
                     LET rows == {r \in DOMAIN df :
                                     /\ df[r].CustomerKey = x[1]
                                     /\ df[r].ProductKey = x[2]}
                     IN  IF rows = {} THEN Zero ELSE aggfunc(df, rows)]]

NoMatrix == [index |-> {}, columns |-> {}, cell |-> <<>>]

\* ------------------------------------------ calcular_similaridades (92-100)
RECURSIVE Dot(_, _, _, _)
Dot(m, i, j, cols) ==
    IF cols = {} THEN Zero
    ELSE LET p == Min(cols)
         IN  RAdd(RMul(m.cell[<<i, p>>], m.cell[<<j, p>>]), Dot(m, i, j, cols \ {p}))

\* A faulty handle_zeros: the norm is used as it is, 0 included.
handle_zeros_none(n2) == n2

\* sklearn's normalize divides each row by its norm, a zero norm replaced by 1
\* (here on the squared norm).
handle_zeros(n2) == IF n2 = Zero THEN One ELSE n2

\* The squared cosine of rows i and j: (vi . vj)^2 / (|vi|^2 * |vj|^2).
cosine(m, i, j) ==
    LET d == Dot(m, i, j, m.columns)
    IN  RDiv(RMul(d, d),
             RMul(handle_zeros(Dot(m, i, i, m.columns)),
                  handle_zeros(Dot(m, j, j, m.columns))))

cosine_similarity(m) == [x \in m.index \X m.index |-> cosine(m, x[1], x[2])]

\* ----------------------------------------------------------------- actions
criar_matriz_interacao ==
    /\ pc = "start"
    /\ matriz' = pivot_table(df_vendas)
    /\ pc' = "built"
    /\ UNCHANGED <<erro, df_vendas, df_similaridade, cliente_id, n_vizinhos,
                   produtos_comprados, similares, recomendacoes, idx,
                   recomendacoes_ordenadas>>

calcular_similaridades ==
    /\ pc = "built"
    /\ matriz.index # {}
    /\ df_similaridade' = cosine_similarity(matriz)
    /\ pc' = "computed"
    /\ UNCHANGED <<erro, df_vendas, matriz, cliente_id, n_vizinhos,
                   produtos_comprados, similares, recomendacoes, idx,
                   recomendacoes_ordenadas>>

\* cosine_similarity validates its argument: an array of 0 rows is rejected
\* with ValueError, which main() reports before it stops (143-155).
calcular_similaridades_erro ==
    /\ pc = "built"
    /\ matriz.index = {}
    /\ erro' = "ValueError"
    /\ pc' = "error"
    /\ UNCHANGED <<df_vendas, matriz, df_similaridade, cliente_id, n_vizinhos,
                   produtos_comprados, similares, recomendacoes, idx,
                   recomendacoes_ordenadas>>

\* --------------------------------------------- obter_recomendacoes (103-137)
\* A faulty label lookup: a missing label falls back to the first label
\* instead of raising.
get_loc_fallback(labels, key) ==
    IF key \in labels THEN [found |-> TRUE, label |-> key]
    ELSE IF labels # {} THEN [found |-> TRUE, label |-> Min(labels)]
    ELSE [found |-> FALSE, label |-> key]

\* A label lookup: pandas raises KeyError for a label that is not there.
get_loc(labels, key) == [found |-> key \in labels, label |-> key]

\* A faulty produtos_de: the comparison is >= 0.
produtos_de_geq(m, c) == {p \in m.columns : m.cell[<<c, p>>][1] >= 0}

\* set(matriz.loc[c][matriz.loc[c] > 0].index)
produtos_de(m, c) == {p \in m.columns : RPos(m.cell[<<c, p>>])}

\* A faulty produtos_novos: the purchased set is not subtracted.
produtos_novos_todos(vizinho, comprados) == vizinho

\* produtos_vizinho - produtos_comprados
produtos_novos(vizinho, comprados) == vizinho \ comprados

\* df_similaridade[c].sort_values(ascending=False): the labels in an order of
\* non-increasing similarity to c. The sort is pandas' default quicksort, which
\* is not stable: every order of equal scores is a possible result.
sort_values(sim, labels, c) ==
    {s \in [1..Cardinality(labels) -> labels] :
        /\ \A a, b \in DOMAIN s : a # b => s[a] # s[b]
        /\ \A a, b \in DOMAIN s : a < b => RLeq(sim[<<s[b], c>>], sim[<<s[a], c>>])}

\* The positional slice [1:k+1] of a sequence (0-based, end exclusive).
slice(s, k) ==
    [a \in 1..(IF Len(s) - 1 < k THEN (IF Len(s) = 0 THEN 0 ELSE Len(s) - 1) ELSE k)
        |-> s[a + 1]]

\* A faulty max: the later score replaces the earlier.
max_ultimo(a, b) == b

\* max(recomendacoes[produto]['score'], similaridade_score)
max(a, b) == IF RLeq(b, a) THEN a ELSE b

\* A faulty atualizar: the new entry's neighbour is appended once more.
atualizar_sem_else(recs, produto, vizinho_id, score) ==
    IF \E e \in DOMAIN recs : recs[e].produto = produto
    THEN [e \in DOMAIN recs |->
            IF recs[e].produto = produto
            THEN [produto |-> produto,
                  score |-> IF RLeq(score, recs[e].score) THEN recs[e].score ELSE score,
                  vizinhos |-> Append(recs[e].vizinhos, vizinho_id)]
            ELSE recs[e]]
    ELSE Append(recs, [produto |-> produto, score |-> score,
                       vizinhos |-> <<vizinho_id, vizinho_id>>])

\* Lines 120-128 for one produto: a new entry, or the neighbour appended to
\* the entry's vizinhos and the entry's score raised to the maximum.
atualizar(recs, produto, vizinho_id, score) ==
    IF \E e \in DOMAIN recs : recs[e].produto = produto
    THEN [e \in DOMAIN recs |->
            IF recs[e].produto = produto
            THEN [produto |-> produto,
                  score |-> max(recs[e].score, score),
                  vizinhos |-> Append(recs[e].vizinhos, vizinho_id)]
            ELSE recs[e]]
    ELSE Append(recs, [produto |-> produto, score |-> score, vizinhos |-> <<vizinho_id>>])

\* Lines 119-128: the inner loop over produtos_novos, a set of small integers,
\* which CPython iterates in ascending order.
RECURSIVE para_cada_produto(_, _, _, _)
para_cada_produto(recs, novos, vizinho_id, score) ==
    IF novos = {} THEN recs
    ELSE LET produto == Min(novos)
         IN  para_cada_produto(atualizar(recs, produto, vizinho_id, score),
                               novos \ {produto}, vizinho_id, score)

\* A faulty sorted: reverse=False.
RECURSIVE sorted_asc(_)
sorted_asc(recs) ==
    IF recs = <<>> THEN <<>>
    ELSE LET n == Len(recs)
             front == sorted_asc(SubSeq(recs, 1, n - 1))
             before == {a \in DOMAIN front : RLeq(front[a].score, recs[n].score)}
             at == Cardinality(before)
         IN  SubSeq(front, 1, at) \o <<recs[n]>> \o SubSeq(front, at + 1, Len(front))

\* sorted(recomendacoes.items(), key=score, reverse=True): Python's sort is
\* stable, and reverse=True keeps the original order of equal scores.
RECURSIVE sorted(_)
sorted(recs) ==
    IF recs = <<>> THEN <<>>
    ELSE LET n == Len(recs)
             front == sorted(SubSeq(recs, 1, n - 1))
             before == {a \in DOMAIN front : RLeq(recs[n].score, front[a].score)}
             at == Cardinality(before)
         IN  SubSeq(front, 1, at) \o <<recs[n]>> \o SubSeq(front, at + 1, Len(front))

\* Lines 107 and 110 raise KeyError for a cliente_id that is no row of matriz
\* (df_similaridade has the same labels): nothing is returned.
obter_recomendacoes_KeyError ==
    /\ pc = "computed"
    /\ \E c \in CustomerKeys, k \in 1..MaxK :
         /\ ~get_loc(matriz.index, c).found
         /\ cliente_id' = c
         /\ n_vizinhos' = k
    /\ erro' = "KeyError"
    /\ pc' = "error"
    /\ UNCHANGED <<df_vendas, matriz, df_similaridade, produtos_comprados,
                   similares, recomendacoes, idx, recomendacoes_ordenadas>>

\* Lines 107-113: the purchased set, the neighbours, the empty dictionary.
obter_recomendacoes ==
    /\ pc = "computed"
    /\ \E c \in CustomerKeys, k \in 1..MaxK :
         LET loc == get_loc(matriz.index, c)
         IN  /\ loc.found
             /\ cliente_id' = c
             /\ n_vizinhos' = k
             /\ produtos_comprados' = produtos_de(matriz, loc.label)
             /\ \E s \in sort_values(df_similaridade, matriz.index, loc.label) :
                  similares' = [a \in DOMAIN slice(s, k) |->
                                  [vizinho_id |-> slice(s, k)[a],
                                   score |-> df_similaridade[<<slice(s, k)[a], loc.label>>]]]
    /\ recomendacoes' = <<>>
    /\ idx' = 1
    /\ pc' = "loop"
    /\ UNCHANGED <<erro, df_vendas, matriz, df_similaridade, recomendacoes_ordenadas>>

\* Lines 115-128: one iteration of the loop over similares.
para_cada_vizinho ==
    /\ pc = "loop"
    /\ idx <= Len(similares)
    /\ recomendacoes' =
         para_cada_produto(recomendacoes,
                           produtos_novos(produtos_de(matriz, similares[idx].vizinho_id),
                                          produtos_comprados),
                           similares[idx].vizinho_id, similares[idx].score)
    /\ idx' = idx + 1
    /\ UNCHANGED <<pc, erro, df_vendas, matriz, df_similaridade, cliente_id,
                   n_vizinhos, produtos_comprados, similares, recomendacoes_ordenadas>>

\* Lines 131-137: the sort and the return.
retornar ==
    /\ pc = "loop"
    /\ idx > Len(similares)
    /\ recomendacoes_ordenadas' = sorted(recomendacoes)
    /\ pc' = "done"
    /\ UNCHANGED <<erro, df_vendas, matriz, df_similaridade, cliente_id, n_vizinhos,
                   produtos_comprados, similares, recomendacoes, idx>>

\* -------------------------------------------------------------- build spec
\* criar_matriz_interacao and calcular_similaridades as functions of any
\* record sequence: duplicates of a (customer, product) pair, any order.
RawInputs(df) == \E n \in 0..MaxRows : df \in [1..n -> Records]

InitVars ==
    /\ pc = "start"
    /\ erro = ""
    /\ matriz = NoMatrix
    /\ df_similaridade = <<>>
    /\ cliente_id = 0
    /\ n_vizinhos = 0
    /\ produtos_comprados = {}
    /\ similares = <<>>
    /\ recomendacoes = <<>>
    /\ idx = 0
    /\ recomendacoes_ordenadas = <<>>

InitBuild == RawInputs(df_vendas) /\ InitVars

NextBuild ==
    \/ criar_matriz_interacao
    \/ calcular_similaridades
    \/ calcular_similaridades_erro

SpecBuild == InitBuild /\ [][NextBuild]_vars

\* --------------------------------------------------------------- main spec
\* carregar_dados (49-60) groups by (CustomerKey, ProductKey): df_vendas has
\* one record per pair. The records are kept in ascending order of the pair.
PairKey(x) == x[1] * (NumProducts + 1) + x[2]

RECURSIVE SeqOfPairs(_, _)
SeqOfPairs(S, q) ==
    IF S = {} THEN <<>>
    ELSE LET x == CHOOSE y \in S : \A z \in S : PairKey(y) <= PairKey(z)
         IN  <<[CustomerKey |-> x[1], ProductKey |-> x[2], TotalQtd |-> q[x]]>>
                \o SeqOfPairs(S \ {x}, q)

GroupedInputs(df) ==
    \E S \in SUBSET (CustomerKeys \X ProductKeys) :
        /\ Cardinality(S) <= MaxTx
        /\ \E q \in [S -> Quantities] : df = SeqOfPairs(S, q)

Init == GroupedInputs(df_vendas) /\ InitVars

Next ==
    \/ criar_matriz_interacao
    \/ calcular_similaridades
    \/ calcular_similaridades_erro
    \/ obter_recomendacoes_KeyError
    \/ obter_recomendacoes
    \/ para_cada_vizinho
    \/ retornar

Spec == Init /\ [][Next]_vars

\* ================================================================== claims
Range(f) == {f[a] : a \in DOMAIN f}
Ids(sims) == {sims[a].vizinho_id : a \in DOMAIN sims}
Outros == matriz.index \ {cliente_id}
Comprou(c, p) == RPos(matriz.cell[<<c, p>>])
LinhaZero(c) == \A p \in matriz.columns : ~Comprou(c, p)
Chamada == pc \in {"loop", "done"}

\* The records of df_vendas for the pair x.
RegistrosDe(x) ==
    {r \in DOMAIN df_vendas :
        df_vendas[r].CustomerKey = x[1] /\ df_vendas[r].ProductKey = x[2]}

\* C1: the neighbour ranking holds only customers other than the target, and
\* exactly min(k, number of other customers) of them (all of them when k is
\* at least their number).
C1_NeighborsExcludeTarget ==
    Chamada =>
        /\ cliente_id \notin Ids(similares)
        /\ Len(similares) =
             (IF n_vizinhos < Cardinality(Outros) THEN n_vizinhos ELSE Cardinality(Outros))
        /\ n_vizinhos >= Cardinality(Outros) => Ids(similares) = Outros

\* C2: no recommended product is in the purchased set of the target.
C2_Exclusion ==
    /\ Chamada => \A e \in DOMAIN recomendacoes :
                     recomendacoes[e].produto \notin produtos_comprados
    /\ pc = "done" => \A e \in DOMAIN recomendacoes_ordenadas :
                     recomendacoes_ordenadas[e].produto \notin produtos_comprados

C2_Witness ==
    /\ pc = "done"
    /\ recomendacoes_ordenadas # <<>>
    /\ \E a \in DOMAIN similares : \E p \in produtos_comprados :
          /\ similares[a].vizinho_id # cliente_id
          /\ Comprou(similares[a].vizinho_id, p)

\* The positions of similares, among the first n, whose customer bought p.
Apoiadores(p, n) ==
    {a \in DOMAIN similares : a <= n /\ Comprou(similares[a].vizinho_id, p)}

\* The entry e is the max-aggregate of the first n selected neighbours.
EntradaCerta(e, n) ==
    /\ Apoiadores(e.produto, n) # {}
    /\ \E a \in Apoiadores(e.produto, n) : e.score = similares[a].score
    /\ \A a \in Apoiadores(e.produto, n) : RLeq(similares[a].score, e.score)
    /\ Range(e.vizinhos) = {similares[a].vizinho_id : a \in Apoiadores(e.produto, n)}

C3_Inv ==
    /\ pc = "loop" => \A e \in DOMAIN recomendacoes :
                         EntradaCerta(recomendacoes[e], idx - 1)
    /\ pc = "done" => \A e \in DOMAIN recomendacoes_ordenadas :
                         EntradaCerta(recomendacoes_ordenadas[e], Len(similares))

C3_Mono ==
    \A e \in DOMAIN recomendacoes : \A f \in DOMAIN recomendacoes' :
        recomendacoes'[f].produto = recomendacoes[e].produto =>
            RLeq(recomendacoes[e].score, recomendacoes'[f].score)

C4_CellIsSum ==
    pc = "built" =>
        \A x \in matriz.index \X matriz.columns :
            matriz.cell[x] = Rat(SumQtd(df_vendas, RegistrosDe(x)), 1)

\* C5 as stated: a target with an all-zero row has an empty purchased set and,
\* when another customer bought something, a non-empty recommendation list.
\* It is stated for the calls whose neighbour ranking does not hold the target:
\* the calls that the slice of C1 gets right.
C5_Original ==
    (pc = "done" /\ LinhaZero(cliente_id) /\ cliente_id \notin Ids(similares)) =>
        /\ produtos_comprados = {}
        /\ (\E c \in Outros : ~LinhaZero(c)) => recomendacoes_ordenadas # <<>>

\* C5 amended: a target with an all-zero row has an empty purchased set, and
\* its recommendation list is non-empty exactly when a customer of the
\* returned neighbour ranking bought something.
C5_GracefulEmptiness ==
    (pc = "done" /\ LinhaZero(cliente_id)) =>
        /\ produtos_comprados = {}
        /\ recomendacoes_ordenadas # <<>> <=> \E c \in Ids(similares) : ~LinhaZero(c)

C5_Witness ==
    /\ pc = "done"
    /\ LinhaZero(cliente_id)
    /\ recomendacoes_ordenadas # <<>>

\* C6: the recommendations are in non-increasing order of score and the
\* neighbour ranking in non-increasing order of similarity.
C6_RankingOrder ==
    /\ pc = "done" =>
         \A a, b \in DOMAIN recomendacoes_ordenadas :
            a < b => RLeq(recomendacoes_ordenadas[b].score, recomendacoes_ordenadas[a].score)
    /\ Chamada =>
         \A a, b \in DOMAIN similares :
            a < b => RLeq(similares[b].score, similares[a].score)

C6_Witness ==
    /\ pc = "done"
    /\ \E a, b \in DOMAIN recomendacoes_ordenadas :
          recomendacoes_ordenadas[a].score # recomendacoes_ordenadas[b].score
    /\ \E a, b \in DOMAIN similares : similares[a].score # similares[b].score

C8_EmptyInputFails ==
    (df_vendas = <<>> /\ pc # "start") => (pc = "error" /\ erro = "EmptyInputError")

\* C9: a call for a target that is no row of the matrix ends in an error,
\* before any selection or aggregation, and returns nothing.
C9_UnknownCustomerFails ==
    /\ Chamada => cliente_id \in matriz.index
    /\ (pc = "error" /\ cliente_id # 0) =>
          /\ erro = "KeyError"
          /\ produtos_comprados = {}
          /\ similares = <<>>
          /\ recomendacoes = <<>>
          /\ recomendacoes_ordenadas = <<>>

C9_Witness ==
    /\ pc = "error"
    /\ erro = "KeyError"
    /\ cliente_id \in CustomerKeys \ matriz.index

\* C10: the target is no supporting neighbour of any recommended product, and
\* every entry's vizinhos is non-empty and free of duplicates.
EntradaSemAlvo(e) ==
    /\ cliente_id \notin Range(e.vizinhos)
    /\ e.vizinhos # <<>>
    /\ \A a, b \in DOMAIN e.vizinhos : a # b => e.vizinhos[a] # e.vizinhos[b]

C10_SupportersExcludeTarget ==
    /\ Chamada => \A e \in DOMAIN recomendacoes : EntradaSemAlvo(recomendacoes[e])
    /\ pc = "done" => \A e \in DOMAIN recomendacoes_ordenadas :
                         EntradaSemAlvo(recomendacoes_ordenadas[e])

C10_Witness ==
    /\ pc = "done"
    /\ cliente_id \in Ids(similares)
    /\ produtos_comprados # {}
    /\ recomendacoes_ordenadas # <<>>

====
